---- MODULE Spec2Model ----
(***************************************************************************)
(* State-machine model of src/src/camFusion_Student.cpp: the camera/lidar  *)
(* fusion core (region association, match filter, box matcher and the two  *)
(* time-to-collision estimators).  Each function of the file is one action *)
(* that performs the whole call; its arguments are the state.              *)
(*                                                                         *)
(* Numbers.  Pixel coordinates, rectangle fields and box ids are integers. *)
(* The float shrink factor is the fraction shrinkFactor / ShrinkDen; for   *)
(* ShrinkDen a power of two these are exactly representable floats and     *)
(* every product in the source is exact, so the truncations below are the  *)
(* ones the build performs.  Doubles that are quotients (distance ratios,  *)
(* TTC) are kept as exact fractions [num, den].  Sequences are 1-based:    *)
(* index i here is index i-1 in the source.                                *)
(***************************************************************************)
EXTENDS Integers, Sequences, FiniteSets

VARIABLES
    pc,               \* "ready" before the call, "done" after it returned
    \* clusterLidarWithROI
    boundingBoxes,    \* std::vector<BoundingBox>: records [roi, lidarPoints]
    lidarPoints,      \* std::vector<LidarPoint>: records [x, y, z]
    shrinkFactor,     \* numerator of the float shrinkFactor (over ShrinkDen)
    P_rect_xx, R_rect_xx, RT,   \* calibration matrices (rows of integers)
    enclosingBoxes,   \* per lidar point, the local vector enclosingBoxes
    \* clusterKptMatchesWithROI / computeTTCCamera
    boundingBox,      \* BoundingBox: record [roi, kptMatches]
    kptsPrev, kptsCurr,  \* std::vector<cv::KeyPoint>: records [x, y]
    kptMatches,       \* std::vector<cv::DMatch>: [queryIdx, trainIdx, distance]
    preFilter,        \* boundingBox.kptMatches just before the erase
    distRatios,       \* the local vector distRatios (before the sort)
    pairsTested,      \* (it1, it2) index pairs visited by the nested loops
    pairsKept,        \* (it1, it2) index pairs that pushed a ratio
    \* computeTTCCamera / computeTTCLidar
    frameRate, TTC,
    readOutside,      \* TRUE when the call indexed outside a vector
    \* computeTTCLidar
    lidarPointsPrev, lidarPointsCurr,  \* x of each point, in units of 0.5 m
    lidarIn,          \* [prev, curr]: the two vectors as supplied
    \* matchBoundingBoxes
    matches, bbBestMatches, prevFrame, currFrame,
    bboxIdMap,        \* the recorded (currId, prevId) pairs, in insertion order
    bbBestMatchesIn   \* bbBestMatches as supplied

varsROI == <<boundingBoxes, lidarPoints, shrinkFactor, P_rect_xx, R_rect_xx, RT,
             enclosingBoxes>>
varsKpt == <<boundingBox, kptsPrev, kptsCurr, kptMatches, preFilter,
             distRatios, pairsTested, pairsKept>>
varsTTC == <<frameRate, TTC, readOutside>>
varsLidar == <<lidarPointsPrev, lidarPointsCurr, lidarIn>>
varsMatch == <<matches, bbBestMatches, prevFrame, currFrame, bboxIdMap,
               bbBestMatchesIn>>
vars == <<pc, varsROI, varsKpt, varsTTC, varsLidar, varsMatch>>

----------------------------------------------------------------------------
(* Bounds of the model *)
MaxBoxes == 2
MaxPoints == 2
ShrinkDen == 8

----------------------------------------------------------------------------
(* Generic helpers *)

\* C++ conversion of a quotient to int: truncation toward zero (b > 0)
TruncDiv(a, b) == IF a >= 0 THEN a \div b ELSE -((-a) \div b)

\* all sequences over S of length at most n
SeqsUpTo(S, n) == UNION {[1..k -> S] : k \in 0..n}

RECURSIVE SumSeq(_)
SumSeq(s) == IF s = <<>> THEN 0 ELSE Head(s) + SumSeq(Tail(s))

\* the variables a specification does not use stay at these values
IdleROI ==
    /\ boundingBoxes = <<>> /\ lidarPoints = <<>> /\ shrinkFactor = 0
    /\ P_rect_xx = <<>> /\ R_rect_xx = <<>> /\ RT = <<>> /\ enclosingBoxes = <<>>
IdleKpt ==
    /\ boundingBox = [roi |-> [x |-> 0, y |-> 0, width |-> 0, height |-> 0],
                      kptMatches |-> <<>>]
    /\ kptsPrev = <<>> /\ kptsCurr = <<>> /\ kptMatches = <<>>
    /\ preFilter = <<>> /\ distRatios = <<>>
    /\ pairsTested = <<>> /\ pairsKept = <<>>
IdleTTC == frameRate = 10 /\ TTC = [kind |-> "unset"] /\ readOutside = FALSE
IdleLidar ==
    /\ lidarPointsPrev = <<>> /\ lidarPointsCurr = <<>>
    /\ lidarIn = [prev |-> <<>>, curr |-> <<>>]
IdleMatch ==
    /\ matches = <<>> /\ bbBestMatches = <<>> /\ bbBestMatchesIn = <<>>
    /\ prevFrame = [keypoints |-> <<>>, boundingBoxes |-> <<>>]
    /\ currFrame = [keypoints |-> <<>>, boundingBoxes |-> <<>>]
    /\ bboxIdMap = <<>>

----------------------------------------------------------------------------
(* cv::Rect and the point projection *)

\* cv::Rect_::contains: x <= pt.x < x + width and y <= pt.y < y + height
Contains(roi, pt) ==
    /\ roi.x <= pt.x /\ pt.x < roi.x + roi.width
    /\ roi.y <= pt.y /\ pt.y < roi.y + roi.height

\* matrix (sequence of rows of four entries) times a homogeneous column vector
MatVec(M, v) ==
    [i \in 1..Len(M) |->
       M[i][1] * v[1] + M[i][2] * v[2] + M[i][3] * v[3] + M[i][4] * v[4]]

\* Y = P_rect_xx * R_rect_xx * RT * X, then the pixel pt (a cv::Point of ints).
\* Y.at<double>(0, 2) addresses the third element of the 3x1 column Y; the
\* lidar points of this model are in front of the camera, so it is positive.
ProjectPoint(P, R, T, p) ==
    LET X == <<p.x, p.y, p.z, 1>>
        Y == MatVec(P, MatVec(R, MatVec(T, X)))
    IN  [x |-> TruncDiv(Y[1], Y[3]), y |-> TruncDiv(Y[2], Y[3])]

\* the shrunk rectangle smallerBox for shrink factor k / ShrinkDen
SmallerBox(roi, k) ==
    [x      |-> TruncDiv(2 * ShrinkDen * roi.x + k * roi.width, 2 * ShrinkDen),
     y      |-> TruncDiv(2 * ShrinkDen * roi.y + k * roi.height, 2 * ShrinkDen),
     width  |-> TruncDiv(roi.width * (ShrinkDen - k), ShrinkDen),
     height |-> TruncDiv(roi.height * (ShrinkDen - k), ShrinkDen)]

\* the inner loop: indices of the boxes whose shrunk rectangle contains pt
RECURSIVE EnclosingLoop(_, _, _, _)
EnclosingLoop(boxes, it2, pt, k) ==
    IF it2 > Len(boxes) THEN <<>>
    ELSE (IF Contains(SmallerBox(boxes[it2].roi, k), pt) THEN <<it2>> ELSE <<>>)
         \o EnclosingLoop(boxes, it2 + 1, pt, k)

\* faulty variant of AddTo: a point enclosed by several boxes goes to the first one
AddToFirst(enc) == IF Len(enc) >= 1 THEN {enc[1]} ELSE {}

\* the test that decides whether the point is added, and to which box
AddTo(enc) == IF Len(enc) = 1 THEN {enc[1]} ELSE {}

\* the outer loop over the lidar points from index it1 on
RECURSIVE ClusterLoop(_, _, _, _, _, _, _)
ClusterLoop(boxes, pts, it1, k, P, R, T) ==
    IF it1 > Len(pts) THEN boxes
    ELSE LET pt  == ProjectPoint(P, R, T, pts[it1])
             enc == EnclosingLoop(boxes, 1, pt, k)
             upd == [b \in 1..Len(boxes) |->
                       IF b \in AddTo(enc)
                       THEN [boxes[b] EXCEPT !.lidarPoints = Append(@, pts[it1])]
                       ELSE boxes[b]]
         IN  ClusterLoop(upd, pts, it1 + 1, k, P, R, T)

\* --- inputs of the region associator
Focal == <<<<2, 0, 2, 0>>, <<0, 2, 2, 0>>, <<0, 0, 1, 0>>>>
Identity4 == <<<<1, 0, 0, 0>>, <<0, 1, 0, 0>>, <<0, 0, 1, 0>>, <<0, 0, 0, 1>>>>
\* lidar x forward, y left, z up  ->  camera x right, y down, z forward
LidarToCam == <<<<0, -1, 0, 0>>, <<0, 0, -1, 0>>, <<1, 0, 0, 0>>, <<0, 0, 0, 1>>>>

\* lidar points; under the calibration below their pixels are
\* (0,4), (2,2), (4,2) and (-3,2)
LidarChoices ==
    {[x |-> 1, y |-> 1, z |-> -1], [x |-> 1, y |-> 0, z |-> 0],
     [x |-> 1, y |-> -1, z |-> 0], [x |-> 2, y |-> 5, z |-> 0]}
RoiChoices ==
    {[x |-> 0, y |-> 0, width |-> 4, height |-> 8],
     [x |-> 2, y |-> 0, width |-> 4, height |-> 8],
     [x |-> -3, y |-> 1, width |-> 5, height |-> 3]}

InitROI ==
    /\ pc = "ready"
    /\ boundingBoxes \in SeqsUpTo({[roi |-> r, lidarPoints |-> <<>>] : r \in RoiChoices},
                                  MaxBoxes)
    /\ lidarPoints \in SeqsUpTo(LidarChoices, MaxPoints)
    /\ shrinkFactor \in 0..(ShrinkDen - 1)
    /\ P_rect_xx = Focal /\ R_rect_xx = Identity4 /\ RT = LidarToCam
    /\ enclosingBoxes = <<>>
    /\ IdleKpt /\ IdleTTC /\ IdleLidar /\ IdleMatch

clusterLidarWithROI ==
    /\ pc = "ready"
    /\ boundingBoxes' = ClusterLoop(boundingBoxes, lidarPoints, 1, shrinkFactor,
                                    P_rect_xx, R_rect_xx, RT)
    /\ enclosingBoxes' =
         [i \in 1..Len(lidarPoints) |->
            EnclosingLoop(boundingBoxes, 1,
                          ProjectPoint(P_rect_xx, R_rect_xx, RT, lidarPoints[i]),
                          shrinkFactor)]
    /\ pc' = "done"
    /\ UNCHANGED <<lidarPoints, shrinkFactor, P_rect_xx, R_rect_xx, RT>>
    /\ UNCHANGED <<varsKpt, varsTTC, varsLidar, varsMatch>>

NextROI == clusterLidarWithROI
SpecROI == InitROI /\ [][NextROI]_vars

----------------------------------------------------------------------------
(* Fractions: a double that is a quotient of integers, [num, den], den > 0 *)

Frac(n, d) == IF d > 0 THEN [num |-> n, den |-> d] ELSE [num |-> -n, den |-> -d]
FracLess(a, b) == a.num * b.den < b.num * a.den
FracEq(a, b) == a.num * b.den = b.num * a.den

\* what a call that indexes outside a vector may produce
UBOutcomes == {[kind |-> "nan"], [kind |-> "garbage"], [kind |-> "crash"]}

Abs(a) == IF a >= 0 THEN a ELSE -a

\* cv::norm of the difference of two keypoints; the keypoints of this model
\* lie on one image row or column, where the norm is an integer
Norm(p, q) ==
    IF p.y = q.y THEN Abs(p.x - q.x)
    ELSE IF p.x = q.x THEN Abs(p.y - q.y)
    ELSE CHOOSE n \in 0..(Abs(p.x - q.x) + Abs(p.y - q.y)) :
           n * n = (p.x - q.x) * (p.x - q.x) + (p.y - q.y) * (p.y - q.y)

----------------------------------------------------------------------------
(* clusterKptMatchesWithROI *)

MaxKptMatches == 3
MaxPrior == 1

\* the loop over kptMatches: [kept, sumDist] from index i on
RECURSIVE KptLoop(_, _, _, _, _)
KptLoop(box, kpts, ms, i, acc) ==
    IF i > Len(ms) THEN acc
    ELSE KptLoop(box, kpts, ms, i + 1,
           IF Contains(box.roi, kpts[ms[i].trainIdx])
           THEN [kept |-> Append(acc.kept, ms[i]), sumDist |-> acc.sumDist + ms[i].distance]
           ELSE acc)

\* the erase predicate, match.distance < 0.7 * meanDist with
\* meanDist = sumDist / size; size = 0 makes meanDist NaN and the test false.
\* The comparison is exact here; the distances of this model never put a
\* match on the threshold itself, where the rounding of 0.7 could decide.
Discard(match, sumDist, size) ==
    size > 0 /\ 10 * match.distance * size < 7 * sumDist

KptRoi == [x |-> 0, y |-> 0, width |-> 4, height |-> 4]
KptsCurrROI == <<[x |-> 1, y |-> 1], [x |-> 9, y |-> 9]>>
MatchDistances == {1, 4, 10}
KptMatchChoices ==
    {[queryIdx |-> 1, trainIdx |-> t, distance |-> d] : t \in 1..2, d \in MatchDistances}

InitKpt ==
    /\ pc = "ready"
    /\ boundingBox \in {[roi |-> KptRoi, kptMatches |-> prior] :
                          prior \in SeqsUpTo(KptMatchChoices, MaxPrior)}
    /\ kptsPrev = KptsCurrROI /\ kptsCurr = KptsCurrROI
    /\ kptMatches \in SeqsUpTo(KptMatchChoices, MaxKptMatches)
    /\ preFilter = <<>> /\ distRatios = <<>>
    /\ pairsTested = <<>> /\ pairsKept = <<>>
    /\ IdleROI /\ IdleTTC /\ IdleLidar /\ IdleMatch

clusterKptMatchesWithROI ==
    /\ pc = "ready"
    /\ LET r == KptLoop(boundingBox, kptsCurr, kptMatches, 1,
                        [kept |-> boundingBox.kptMatches, sumDist |-> 0])
       IN  /\ preFilter' = r.kept
           /\ boundingBox' = [boundingBox EXCEPT !.kptMatches =
                SelectSeq(r.kept, LAMBDA m : ~Discard(m, r.sumDist, Len(r.kept)))]
    /\ pc' = "done"
    /\ UNCHANGED <<kptsPrev, kptsCurr, kptMatches, distRatios, pairsTested, pairsKept>>
    /\ UNCHANGED <<varsROI, varsTTC, varsLidar, varsMatch>>

NextKpt == clusterKptMatchesWithROI
SpecKpt == InitKpt /\ [][NextKpt]_vars

----------------------------------------------------------------------------
(* computeTTCCamera *)

MaxCamMatches == 4

\* std::sort of a vector of fractions (insertion into a sorted prefix)
RECURSIVE InsertFrac(_, _)
InsertFrac(r, s) ==
    IF s = <<>> THEN <<r>>
    ELSE IF FracLess(r, Head(s)) THEN <<r>> \o s
    ELSE <<Head(s)>> \o InsertFrac(r, Tail(s))

RECURSIVE SortFracs(_)
SortFracs(s) == IF s = <<>> THEN <<>> ELSE InsertFrac(Head(s), SortFracs(Tail(s)))

\* the index pairs (it1, it2) the nested loops visit for n >= 1 matches:
\* it1 from begin() to end()-1 exclusive, it2 from begin()+1 to end() exclusive
RECURSIVE LoopPairs(_, _, _)
LoopPairs(n, it1, it2) ==
    IF it1 > n - 1 THEN <<>>
    ELSE IF it2 > n THEN LoopPairs(n, it1 + 1, 2)
    ELSE <<(<<it1, it2>>)>> \o LoopPairs(n, it1, it2 + 1)

minDist == 100

\* the test distPrev > epsilon && distCurr >= minDist for the matches (a, b);
\* distPrev is an integer here, so it exceeds epsilon exactly when it is not 0
KeepRatio(kp, kc, a, b) ==
    /\ Norm(kp[a.queryIdx], kp[b.queryIdx]) > 0
    /\ Norm(kc[a.trainIdx], kc[b.trainIdx]) >= minDist

DistRatio(kp, kc, a, b) ==
    Frac(Norm(kc[a.trainIdx], kc[b.trainIdx]), Norm(kp[a.queryIdx], kp[b.queryIdx]))

\* median of the sorted ratios (medIdx = floor(size / 2), 0-based in the source)
MedDistRatio(sorted) ==
    LET medIdx == Len(sorted) \div 2
    IN  IF Len(sorted) % 2 = 0
        THEN Frac(sorted[medIdx].num * sorted[medIdx + 1].den
                    + sorted[medIdx + 1].num * sorted[medIdx].den,
                  2 * sorted[medIdx].den * sorted[medIdx + 1].den)
        ELSE sorted[medIdx + 1]

\* TTC = -dT / (1 - medDistRatio), dT = 1.0 / frameRate
CameraTTC(ratios, fr) ==
    IF Len(ratios) = 0 THEN [kind |-> "nan"]
    ELSE LET med == MedDistRatio(SortFracs(ratios))
         IN  IF med.num = med.den THEN [kind |-> "inf"]
             ELSE [kind |-> "num", val |-> Frac(-med.den, fr * (med.den - med.num))]

CamKptsPrev == <<[x |-> 0, y |-> 0], [x |-> 90, y |-> 0], [x |-> 200, y |-> 0]>>
CamKptsCurrChoices ==
    {<<[x |-> 0, y |-> 0], [x |-> 100, y |-> 0], [x |-> 250, y |-> 0]>>,
     <<[x |-> 0, y |-> 0], [x |-> 60, y |-> 0], [x |-> 200, y |-> 0]>>}
CamMatchChoices ==
    {[queryIdx |-> q, trainIdx |-> t, distance |-> 1] : q \in 1..3, t \in 1..3}
FrameRates == {10, 20}

InitCam ==
    /\ pc = "ready"
    /\ kptsPrev = CamKptsPrev
    /\ kptsCurr \in CamKptsCurrChoices
    /\ kptMatches \in SeqsUpTo(CamMatchChoices, MaxCamMatches)
    /\ frameRate \in FrameRates /\ TTC = [kind |-> "unset"] /\ readOutside = FALSE
    /\ distRatios = <<>> /\ pairsTested = <<>> /\ pairsKept = <<>>
    /\ preFilter = <<>>
    /\ boundingBox = [roi |-> [x |-> 0, y |-> 0, width |-> 0, height |-> 0],
                      kptMatches |-> <<>>]
    /\ IdleROI /\ IdleLidar /\ IdleMatch

computeTTCCamera ==
    /\ pc = "ready"
    /\ IF Len(kptMatches) = 0
       THEN \* end()-1 precedes begin(): the first iteration reads kptMatches[0]
            /\ readOutside' = TRUE
            /\ TTC' \in UBOutcomes
            /\ UNCHANGED <<distRatios, pairsTested, pairsKept>>
       ELSE LET visited == LoopPairs(Len(kptMatches), 1, 2)
                kept == SelectSeq(visited, LAMBDA ij :
                          KeepRatio(kptsPrev, kptsCurr, kptMatches[ij[1]], kptMatches[ij[2]]))
                ratios == [n \in 1..Len(kept) |->
                             DistRatio(kptsPrev, kptsCurr,
                                       kptMatches[kept[n][1]], kptMatches[kept[n][2]])]
            IN  /\ pairsTested' = visited
                /\ pairsKept' = kept
                /\ distRatios' = ratios
                /\ TTC' = CameraTTC(ratios, frameRate)
                /\ UNCHANGED readOutside
    /\ pc' = "done"
    /\ UNCHANGED <<boundingBox, kptsPrev, kptsCurr, kptMatches, preFilter, frameRate>>
    /\ UNCHANGED <<varsROI, varsLidar, varsMatch>>

NextCam == computeTTCCamera
SpecCam == InitCam /\ [][NextCam]_vars

----------------------------------------------------------------------------
(* computeTTCLidar.  A LidarPoint is its x here (the only field the function *)
(* reads), in units of 0.5 m; medians are kept doubled so they stay integer. *)

MaxLidar == 3

\* faulty variant of SortByX: the vector is left in the order supplied
NoSortByX(s) == s

RECURSIVE InsertByX(_, _)
InsertByX(x, s) ==
    IF s = <<>> THEN <<x>>
    ELSE IF x < Head(s) THEN <<x>> \o s
    ELSE <<Head(s)>> \o InsertByX(x, Tail(s))

RECURSIVE SortLoop(_)
SortLoop(s) == IF s = <<>> THEN <<>> ELSE InsertByX(Head(s), SortLoop(Tail(s)))

\* std::sort with the comparator lidPt1.x < lidPt2.x
SortByX(s) == SortLoop(s)

\* twice the median x of a sorted non-empty vector (medIdx = floor(size / 2))
MedX2(sorted) ==
    LET medIdx == Len(sorted) \div 2
    IN  IF Len(sorted) % 2 = 0
        THEN sorted[medIdx] + sorted[medIdx + 1]
        ELSE 2 * sorted[medIdx + 1]

\* TTC = dT * medCurrX / (medPrevX - medCurrX), dT = 1.0 / frameRate
LidarTTC(medPrev2, medCurr2, fr) ==
    IF medPrev2 = medCurr2
    THEN (IF medCurr2 = 0 THEN [kind |-> "nan"] ELSE [kind |-> "inf"])
    ELSE [kind |-> "num", val |-> Frac(medCurr2, fr * (medPrev2 - medCurr2))]

LidarXs == {15, 16, 17}

InitLidar ==
    /\ pc = "ready"
    /\ lidarPointsPrev \in SeqsUpTo(LidarXs, MaxLidar)
    /\ lidarPointsCurr \in SeqsUpTo(LidarXs, MaxLidar)
    /\ lidarIn = [prev |-> lidarPointsPrev, curr |-> lidarPointsCurr]
    /\ frameRate \in FrameRates /\ TTC = [kind |-> "unset"] /\ readOutside = FALSE
    /\ IdleROI /\ IdleKpt /\ IdleMatch

computeTTCLidar ==
    /\ pc = "ready"
    /\ lidarPointsCurr' = SortByX(lidarPointsCurr)
    /\ lidarPointsPrev' = SortByX(lidarPointsPrev)
    /\ IF Len(lidarPointsCurr) = 0 \/ Len(lidarPointsPrev) = 0
       THEN \* size % 2 == 0 selects the elements [-1] and [0] of an empty vector
            /\ readOutside' = TRUE
            /\ TTC' \in UBOutcomes
       ELSE /\ TTC' = LidarTTC(MedX2(lidarPointsPrev'), MedX2(lidarPointsCurr'), frameRate)
            /\ UNCHANGED readOutside
    /\ pc' = "done"
    /\ UNCHANGED <<lidarIn, frameRate>>
    /\ UNCHANGED <<varsROI, varsKpt, varsMatch>>

NextLidar == computeTTCLidar
SpecLidar == InitLidar /\ [][NextLidar]_vars

----------------------------------------------------------------------------
(* matchBoundingBoxes.  bbBestMatches (std::map<int,int>) is a function    *)
(* from previous ids to current ids; bboxIdMap (std::multimap) is kept as  *)
(* the sequence of inserted (currId, prevId) pairs.                        *)

MaxMatches == 4

\* the loop with break over a frame's boxes: the id of the first box whose
\* rectangle contains pt; when none does, the variable keeps its value
RECURSIVE FirstBoxId(_, _, _, _)
FirstBoxId(boxes, n, pt, old) ==
    IF n > Len(boxes) THEN old
    ELSE IF Contains(boxes[n].roi, pt) THEN boxes[n].boxID
    ELSE FirstBoxId(boxes, n + 1, pt, old)

Max(a, b) == IF a >= b THEN a ELSE b

\* the loop over matches from index it on; currId, prevId and prevMaxId are
\* declared before the loop and carried from one iteration to the next
RECURSIVE RecordLoop(_, _, _, _, _, _, _, _)
RecordLoop(ms, it, prevF, currF, currId, prevId, prevMaxId, idMap) ==
    IF it > Len(ms) THEN [bboxIdMap |-> idMap, prevMaxId |-> prevMaxId]
    ELSE LET c == FirstBoxId(currF.boundingBoxes, 1,
                             currF.keypoints[ms[it].trainIdx], currId)
             p == FirstBoxId(prevF.boundingBoxes, 1,
                             prevF.keypoints[ms[it].queryIdx], prevId)
         IN  RecordLoop(ms, it + 1, prevF, currF, c, p, Max(prevMaxId, p),
                        Append(idMap, <<c, p>>))

\* the loop over equal_range(cid): countMaxId indexed 0..prevMaxId
RECURSIVE CountLoop(_, _, _, _)
CountLoop(idMap, it, cid, countMaxId) ==
    IF it > Len(idMap) THEN countMaxId
    ELSE CountLoop(idMap, it + 1, cid,
           IF idMap[it][1] = cid /\ idMap[it][2] # -1
           THEN [countMaxId EXCEPT ![idMap[it][2]] = @ + 1]
           ELSE countMaxId)

\* faulty variant of MaxElement: the last largest element instead of the first
RECURSIVE LastMaxScan(_, _, _, _)
LastMaxScan(countMaxId, last, i, best) ==
    IF i > last THEN best
    ELSE LastMaxScan(countMaxId, last, i + 1,
                     IF countMaxId[i] >= countMaxId[best] THEN i ELSE best)

LastMaxElement(countMaxId, last) == LastMaxScan(countMaxId, last, 1, 0)

\* std::max_element: index of the first largest element
RECURSIVE MaxScan(_, _, _, _)
MaxScan(countMaxId, last, i, best) ==
    IF i > last THEN best
    ELSE MaxScan(countMaxId, last, i + 1,
                 IF countMaxId[i] > countMaxId[best] THEN i ELSE best)

MaxElement(countMaxId, last) == MaxScan(countMaxId, last, 1, 0)

\* faulty variant of MapInsert: the assignment bbBestMatches[pid] = cid
MapAssign(m, pid, cid) == [q \in DOMAIN m \cup {pid} |-> IF q = pid THEN cid ELSE m[q]]

\* std::map::insert: no effect when the key is present
MapInsert(m, pid, cid) ==
    IF pid \in DOMAIN m THEN m
    ELSE [q \in DOMAIN m \cup {pid} |-> IF q = pid THEN cid ELSE m[q]]

\* the loop over currFrameBboxIds from index n on
RECURSIVE BestLoop(_, _, _, _, _)
BestLoop(ids, n, idMap, prevMaxId, best) ==
    IF n > Len(ids) THEN best
    ELSE LET countMaxId == CountLoop(idMap, 1, ids[n], [q \in 0..prevMaxId |-> 0])
             pid == MaxElement(countMaxId, prevMaxId)
         IN  BestLoop(ids, n + 1, idMap, prevMaxId, MapInsert(best, pid, ids[n]))

RoiA == [x |-> 0, y |-> 0, width |-> 4, height |-> 4]
RoiB == [x |-> 2, y |-> 0, width |-> 4, height |-> 4]
\* keypoint 1 lies in RoiA only, keypoint 2 in RoiA and RoiB, keypoint 3 in neither
FrameKeypoints == <<[x |-> 1, y |-> 1], [x |-> 3, y |-> 1], [x |-> 9, y |-> 9]>>
PrevFrames ==
    {[keypoints |-> FrameKeypoints,
      boundingBoxes |-> <<[boxID |-> 3, roi |-> RoiB], [boxID |-> 2, roi |-> RoiA]>>]}
CurrFrames ==
    {[keypoints |-> FrameKeypoints,
      boundingBoxes |-> <<[boxID |-> 5, roi |-> RoiB], [boxID |-> 1, roi |-> RoiA]>>]}
MatchChoices ==
    {[queryIdx |-> q, trainIdx |-> t, distance |-> 1] : q \in 1..3, t \in 1..3}
BestMatchesInChoices == {<<>>, [q \in {2} |-> 9]}

InitMatch ==
    /\ pc = "ready"
    /\ matches \in SeqsUpTo(MatchChoices, MaxMatches)
    /\ prevFrame \in PrevFrames
    /\ currFrame \in CurrFrames
    /\ bbBestMatches \in BestMatchesInChoices
    /\ bbBestMatchesIn = bbBestMatches
    /\ bboxIdMap = <<>>
    /\ IdleROI /\ IdleKpt /\ IdleTTC /\ IdleLidar

matchBoundingBoxes ==
    /\ pc = "ready"
    /\ LET rec == RecordLoop(matches, 1, prevFrame, currFrame, -1, -1, 0, <<>>)
           currFrameBboxIds == [n \in 1..Len(currFrame.boundingBoxes) |->
                                  currFrame.boundingBoxes[n].boxID]
       IN  /\ bboxIdMap' = rec.bboxIdMap
           /\ bbBestMatches' = BestLoop(currFrameBboxIds, 1, rec.bboxIdMap,
                                        rec.prevMaxId, bbBestMatches)
    /\ pc' = "done"
    /\ UNCHANGED <<matches, prevFrame, currFrame, bbBestMatchesIn>>
    /\ UNCHANGED <<varsROI, varsKpt, varsTTC, varsLidar>>

NextMatch == matchBoundingBoxes
SpecMatch == InitMatch /\ [][NextMatch]_vars

----------------------------------------------------------------------------
(* Claims about clusterLidarWithROI *)

Pixel(p) == ProjectPoint(P_rect_xx, R_rect_xx, RT, p)

\* per input point, the set of regions whose shrunk rectangle contains its pixel
InShrunk ==
    [i \in 1..Len(lidarPoints) |->
       LET px == Pixel(lidarPoints[i])
       IN  {b \in 1..Len(boundingBoxes) :
              Contains(SmallerBox(boundingBoxes[b].roi, shrinkFactor), px)}]

Occurs(p, s) == \E i \in 1..Len(s) : s[i] = p

\* C1: after the call, each region's point set is exactly the input points
\* (in input order) whose pixel lies in that region's shrunk rectangle and in
\* no other region's; hence no input point occurs in two regions' point sets.
C1_UniqueAssociation ==
    pc = "done" =>
      LET in == InShrunk
      IN  /\ \A b \in 1..Len(boundingBoxes) :
               LET idx == SelectSeq([i \in 1..Len(lidarPoints) |-> i],
                                    LAMBDA i : in[i] = {b})
               IN  boundingBoxes[b].lidarPoints =
                     [k \in 1..Len(idx) |-> lidarPoints[idx[k]]]
          /\ \A i \in 1..Len(lidarPoints) :
               Cardinality({b \in 1..Len(boundingBoxes) :
                  Occurs(lidarPoints[i], boundingBoxes[b].lidarPoints)}) <= 1

\* two overlapping regions; one point in exactly one of them was assigned to
\* it, another point in both was assigned to neither
C1_Witness ==
    /\ pc = "done" /\ Len(boundingBoxes) = 2
    /\ \E i, j \in 1..Len(lidarPoints) :
         /\ Len(enclosingBoxes[i]) = 1 /\ Len(enclosingBoxes[j]) = 2
         /\ boundingBoxes[enclosingBoxes[i][1]].lidarPoints = <<lidarPoints[i]>>
         /\ \A b \in 1..2 : ~Occurs(lidarPoints[j], boundingBoxes[b].lidarPoints)

\* C4: shrink factor 0 leaves every rectangle unchanged, and a pixel the call
\* found inside a region shrunk by the call's factor is also inside that
\* region shrunk by any smaller factor.
C4_ShrinkMonotonic ==
    pc = "done" =>
      /\ \A b \in 1..Len(boundingBoxes) :
           SmallerBox(boundingBoxes[b].roi, 0) = boundingBoxes[b].roi
      /\ \A i \in 1..Len(lidarPoints) : \A s1 \in 0..shrinkFactor :
           \A n \in 1..Len(enclosingBoxes[i]) :
             Contains(SmallerBox(boundingBoxes[enclosingBoxes[i][n]].roi, s1),
                      Pixel(lidarPoints[i]))

----------------------------------------------------------------------------
(* Claims about clusterKptMatchesWithROI *)

Distances(ms) == [i \in 1..Len(ms) |-> ms[i].distance]

\* d < 0.7 * (mean distance of ms)
BelowThreshold(d, ms) == 10 * d * Len(ms) < 7 * SumSeq(Distances(ms))

\* C3: after the call the region's correspondences are exactly those of the
\* pre-discard set whose distance is at least 0.7 times the mean distance of
\* that pre-discard set, in their original order.
C3_FilterByMean ==
    pc = "done" =>
      /\ \A i \in 1..Len(boundingBox.kptMatches) :
           ~BelowThreshold(boundingBox.kptMatches[i].distance, preFilter)
      /\ boundingBox.kptMatches =
           SelectSeq(preFilter, LAMBDA m : ~BelowThreshold(m.distance, preFilter))

----------------------------------------------------------------------------
(* Claims about computeTTCCamera *)

CountIn(e, s) == Cardinality({i \in 1..Len(s) : s[i] = e})

\* C5: with fewer than two valid distance-ratio samples (an empty list, a
\* single correspondence, or at most one pair passing the thresholds) the
\* call sets TTC to NaN and reads nothing outside the correspondence list.
C5_UndefinedBelowTwoSamples ==
    (pc = "done" /\ (Len(kptMatches) <= 1 \/ Len(pairsKept) <= 1)) =>
      (TTC.kind = "nan" /\ ~readOutside)

\* each ordered pair of distinct correspondences is tested exactly once
C8_OncePerDirection ==
    \A i, j \in 1..Len(kptMatches) :
      i # j => CountIn(<<i, j>>, pairsTested) = 1

\* no self-pair contributes a ratio
C8_NoSelfRatio == \A i \in 1..Len(kptMatches) : CountIn(<<i, i>>, pairsKept) = 0

\* ratios contributed by the unordered pair {i, j}
Weight(i, j) == CountIn(<<i, j>>, pairsKept) + CountIn(<<j, i>>, pairsKept)

\* the unordered pair {i, j} passes the thresholds
Passes(i, j) == KeepRatio(kptsPrev, kptsCurr, kptMatches[i], kptMatches[j])

C8_EqualWeight ==
    \A i, j, k, l \in 1..Len(kptMatches) :
      (i # j /\ k # l /\ Passes(i, j) /\ Passes(k, l)) => Weight(i, j) = Weight(k, l)

\* C8: with n >= 2 correspondences every unordered pair of distinct
\* correspondences is tested once per direction, no self-pair contributes a
\* ratio, and every passing unordered pair has the same number of ratios in
\* the collection the median is taken from.
C8_AllPairsEqually ==
    (pc = "done" /\ Len(kptMatches) >= 2) =>
      (C8_OncePerDirection /\ C8_NoSelfRatio /\ C8_EqualWeight)

----------------------------------------------------------------------------
(* Claims about computeTTCLidar *)

\* the k-th smallest element of the bag of values of s (k in 1..Len(s))
KthSmallest(s, k) ==
    CHOOSE v \in {s[i] : i \in 1..Len(s)} :
      /\ Cardinality({i \in 1..Len(s) : s[i] < v}) < k
      /\ Cardinality({i \in 1..Len(s) : s[i] <= v}) >= k

\* twice the median of the values of s, whatever their order
Median2(s) ==
    IF Len(s) % 2 = 0
    THEN KthSmallest(s, Len(s) \div 2) + KthSmallest(s, Len(s) \div 2 + 1)
    ELSE 2 * KthSmallest(s, (Len(s) + 1) \div 2)

\* C6: for non-empty point sets, supplied in any order, whose previous median
\* x exceeds the current median x, TTC = dt * medCurr / (medPrev - medCurr)
\* with dt = 1 / frameRate; medians 8.0 and 7.5 at frameRate 10 give 1.5.
C6_LidarTTCFormula ==
    (/\ pc = "done" /\ Len(lidarIn.prev) > 0 /\ Len(lidarIn.curr) > 0
     /\ Median2(lidarIn.prev) > Median2(lidarIn.curr)) =>
      /\ TTC.kind = "num"
      /\ FracEq(TTC.val, Frac(Median2(lidarIn.curr),
                              frameRate * (Median2(lidarIn.prev) - Median2(lidarIn.curr))))
      /\ (Median2(lidarIn.prev) = 32 /\ Median2(lidarIn.curr) = 30 /\ frameRate = 10)
           => FracEq(TTC.val, Frac(3, 2))

\* previous points supplied unsorted with an even count and median 8.0 m,
\* current points supplied unsorted with median 7.5 m, frameRate 10: TTC 1.5
C6_Witness ==
    /\ pc = "done" /\ frameRate = 10
    /\ lidarIn.prev = <<17, 15>> /\ lidarIn.curr = <<16, 15, 15>>
    /\ TTC.kind = "num" /\ FracEq(TTC.val, Frac(3, 2))

\* C9: when a point set is empty or the current median x is not below the
\* previous median x, the call reports the undefined outcome and reads
\* nothing outside a point set.
C9_DegenerateSignalled ==
    (/\ pc = "done"
     /\ \/ Len(lidarIn.prev) = 0 \/ Len(lidarIn.curr) = 0
        \/ Median2(lidarIn.prev) <= Median2(lidarIn.curr)) =>
      (TTC.kind = "nan" /\ ~readOutside)

----------------------------------------------------------------------------
(* Claims about matchBoundingBoxes *)

CurrIds == [n \in 1..Len(currFrame.boundingBoxes) |-> currFrame.boundingBoxes[n].boxID]

\* the candidate previous ids: those of the previous frame's regions, and 0
\* (any other id has no recorded pair and is above 0)
IdRange ==
    {0} \cup {prevFrame.boundingBoxes[n].boxID : n \in 1..Len(prevFrame.boundingBoxes)}

\* recorded pairs (cid, p)
Votes(cid, p) == Cardinality({i \in 1..Len(bboxIdMap) : bboxIdMap[i] = <<cid, p>>})

\* the previous id with the most recorded pairs for cid, lowest id on a tie
BestPrev(cid) ==
    CHOOSE p \in IdRange : \A q \in IdRange :
      Votes(cid, q) < Votes(cid, p) \/ (Votes(cid, q) = Votes(cid, p) /\ p <= q)

\* the previous id each current region selects, by position
Selected == [n \in 1..Len(CurrIds) |-> BestPrev(CurrIds[n])]

\* C2: starting from an empty output mapping, a current region whose
\* selected previous id (most recorded pairs, -1 never counted, lowest id on
\* a tie, 0 without any pair) is selected by no other current region is the
\* value of that previous id in the output; three pairs (5,2) and one pair
\* (5,3) give the entry 2 -> 5.
C2_MajorityVote ==
    (pc = "done" /\ bbBestMatchesIn = <<>>) =>
      LET sel == Selected
      IN  \A n \in 1..Len(CurrIds) :
            /\ (\A m \in 1..Len(CurrIds) : m # n => sel[m] # sel[n]) =>
                 /\ sel[n] \in DOMAIN bbBestMatches
                 /\ bbBestMatches[sel[n]] = CurrIds[n]
            /\ (/\ CurrIds[n] = 5 /\ Votes(5, 2) = 3 /\ Votes(5, 3) = 1
                /\ \A m \in 1..Len(CurrIds) : m # n => sel[m] # 2) =>
                 (2 \in DOMAIN bbBestMatches /\ bbBestMatches[2] = 5)

\* three recorded pairs (5,2) and one (5,3), output entry 2 -> 5
C2_Witness ==
    /\ pc = "done" /\ bbBestMatchesIn = <<>>
    /\ Votes(5, 2) = 3 /\ Votes(5, 3) = 1
    /\ 2 \in DOMAIN bbBestMatches /\ bbBestMatches[2] = 5

\* the id of the first box whose rectangle contains pt, or the sentinel -1
FirstEnclosing(boxes, pt) ==
    IF \E n \in 1..Len(boxes) : Contains(boxes[n].roi, pt)
    THEN boxes[CHOOSE n \in 1..Len(boxes) :
                 /\ Contains(boxes[n].roi, pt)
                 /\ \A m \in 1..(n - 1) : ~Contains(boxes[m].roi, pt)].boxID
    ELSE -1

\* C7: the pair recorded for a correspondence is (id of the first current
\* region containing its current keypoint or -1, id of the first previous
\* region containing its previous keypoint or -1), whatever was processed
\* before it; so a current region all of whose correspondences have no
\* enclosing previous region selects 0.
C7_PairPerCorrespondence ==
    pc = "done" =>
      /\ Len(bboxIdMap) = Len(matches)
      /\ \A i \in 1..Len(matches) :
           bboxIdMap[i] =
             <<FirstEnclosing(currFrame.boundingBoxes,
                              currFrame.keypoints[matches[i].trainIdx]),
               FirstEnclosing(prevFrame.boundingBoxes,
                              prevFrame.keypoints[matches[i].queryIdx])>>
      /\ \A n \in 1..Len(CurrIds) :
           (\A i \in 1..Len(matches) :
              FirstEnclosing(currFrame.boundingBoxes,
                             currFrame.keypoints[matches[i].trainIdx]) = CurrIds[n]
              => FirstEnclosing(prevFrame.boundingBoxes,
                                prevFrame.keypoints[matches[i].queryIdx]) = -1)
           => Selected[n] = 0

\* the first position (in enumeration order) at which sel holds p
FirstSelecting(sel, p) ==
    CHOOSE n \in DOMAIN sel : sel[n] = p /\ \A m \in 1..(n - 1) : sel[m] # p

\* C10: entries present before the call are unchanged; every other previous
\* id selected by some current region maps to the first region selecting it;
\* no other entry exists, so a region that is not the first to select its
\* previous id, or whose previous id was already mapped, gets no entry.
C10_FirstWins ==
    pc = "done" =>
      LET sel == Selected
          added == DOMAIN bbBestMatches \ DOMAIN bbBestMatchesIn
      IN  /\ \A p \in DOMAIN bbBestMatchesIn :
               p \in DOMAIN bbBestMatches /\ bbBestMatches[p] = bbBestMatchesIn[p]
          /\ \A p \in added :
               /\ \E n \in DOMAIN sel : sel[n] = p
               /\ bbBestMatches[p] = CurrIds[FirstSelecting(sel, p)]
          /\ \A n \in DOMAIN sel : sel[n] \in DOMAIN bbBestMatches
          /\ \A n \in DOMAIN sel :
               (sel[n] \in DOMAIN bbBestMatchesIn \/ FirstSelecting(sel, sel[n]) # n)
               => \A p \in added : bbBestMatches[p] # CurrIds[n]

\* both current regions select previous id 3 and the first one got it, while
\* the entry 2 -> 9 present before the call is still there
C10_Witness ==
    /\ pc = "done" /\ Len(CurrIds) = 2
    /\ bbBestMatchesIn = [q \in {2} |-> 9]
    /\ Selected[1] = 3 /\ Selected[2] = 3
    /\ bbBestMatches = [q \in {2, 3} |-> IF q = 2 THEN 9 ELSE CurrIds[1]]

====
